---- MODULE Spec2Model ----
(***************************************************************************)
(* Model of the preprocessing pipeline of the OCR scanner                  *)
(* (src/preprocessing/image_preprocessing.py).                             *)
(*                                                                         *)
(* An image is a record: its width w, height h, number of channels ch,     *)
(* sample type dtype, the number norm of divisions by 255 its samples      *)
(* have gone through, and px, the samples.  The samples are kept           *)
(* uninterpreted: px is the sequence of resampling and filtering           *)
(* operations the buffer went through, so two buffers are equal exactly    *)
(* when they were made by the same operations in the same order.           *)
(*                                                                         *)
(* Tesseract (pytesseract) and the Hough transform are the environment:    *)
(* env holds what they answer in this run.                                 *)
(***************************************************************************)
EXTENDS Integers, Sequences, FiniteSets

VARIABLES
  input,         \* the image handed to preprocess_image_custom
  steps,         \* the step list handed to it
  target_width,  \* the target_width handed to it
  env,           \* the answers of pytesseract and of HoughLinesP in this run
  pc,            \* "start", "loop", "done" (returned) or "error" (raised)
  i,             \* position of the for loop in steps (1-based)
  image,         \* the running image
  prev,          \* the running image before the last applied step
  applied,       \* the functions called by the for loop so far
  best,          \* best_angle and best_score of the last correct_orientation
  out,           \* the returned image
  err,           \* the call that raised, "" if none
  crop,          \* arguments and rectangle of the last crop_to_text call
  queries,       \* the pytesseract calls of the last correct_orientation
  flags,         \* the apply_* arguments handed to preprocess_image
  flagged,       \* where preprocess_image is: state, position and running image
  pipeline_steps \* st.session_state.pipeline_steps of the app

vars == <<input, steps, target_width, env, pc, i, image, prev, applied, best,
          out, err, crop, queries, flags, flagged, pipeline_steps>>

----------------------------------------------------------------------------
(* Bounds of the model *)

\* longest step list
MaxSteps == 2
\* heights of the very wide, short input images
MaxShortHeight == 2
\* longest side of the images crop_to_text is called on directly
MaxSide == 3
\* largest margin crop_to_text is called with directly
MaxMargin == 1
\* how far above the penalty of a 90 degree residual a sampled count lies
Excess == 1

----------------------------------------------------------------------------
(* Program constants *)

\* resize_normalize(gray, target_width=800)
DefaultTargetWidth == 800
\* evaluate_candidate: penalty = 50 * abs(osd_rotate)
PenaltyWeight == 50
\* evaluate_candidate: osd_rotate = 360 when OSD failed
OsdSentinel == 360
\* crop_to_text(gray, min_conf=60, margin=100)
MinConf == 60
Margin == 100

\* config.py AVAILABLE_STEPS: the keys of step_functions
AVAILABLE_STEPS ==
  <<"contrast", "denoise", "edge_enhancement", "sharpen",
    "threshold", "deskew", "orientation", "crop">>

\* correct_orientation: candidates = [0, 90, 180, 270]
candidates == <<0, 90, 180, 270>>

----------------------------------------------------------------------------
(* Small helpers *)

Abs(x) == IF x < 0 THEN -x ELSE x
Max2(a, b) == IF a >= b THEN a ELSE b
Min2(a, b) == IF a <= b THEN a ELSE b
Range(s) == {s[k] : k \in 1..Len(s)}
SeqMin(s) == CHOOSE x \in Range(s) : \A y \in Range(s) : x <= y
SeqMax(s) == CHOOSE x \in Range(s) : \A y \in Range(s) : x >= y

\* one operation on the samples
Tag(op, a, b) == [op |-> op, a |-> a, b |-> b]

\* Python's None, and the value of the variables before they are assigned
NoImage == [w |-> 0, h |-> 0, ch |-> 0, dtype |-> "none", norm |-> 0, px |-> <<>>]
NoAngle == -1
NoBest == [angle |-> NoAngle, score |-> 0]

\* what a function call does: returns img, or raises
Returned(img) == [ok |-> TRUE, img |-> img]
Raised == [ok |-> FALSE, img |-> NoImage]

\* no call of preprocess_image: no arguments, no outcome
NoFlags == <<>>
NotFlagged == [state |-> "none", k |-> 0, img |-> NoImage]

----------------------------------------------------------------------------
(* The transform steps *)

\* cv2.LUT with the gamma table, then CLAHE
enhance_contrast(gray) ==
  Returned([gray EXCEPT !.px = Append(Append(@, Tag("LUT", 0, 0)), Tag("CLAHE", 0, 0))])

denoise_image(gray) ==
  Returned([gray EXCEPT !.px = Append(@, Tag("fastNlMeansDenoising", 0, 0))])

sharpen_image(gray) ==
  Returned([gray EXCEPT !.px = Append(@, Tag("filter2D", 0, 0))])

edge_enhancement(gray) ==
  Returned([gray EXCEPT !.px = Append(@, Tag("addWeighted_gradient", 0, 0))])

threshold_image(gray) ==
  Returned([gray EXCEPT !.px = Append(@, Tag("threshold", 0, 0))])

\* rotate_bound for the multiples of 90 degrees.  cos and sin are the absolute
\* entries of the rotation matrix, so the canvas is w x h or h x w.  The matrix
\* is then translated by (nW / 2) - cX and (nH / 2) - cY with cX = w // 2 and
\* cY = h // 2: for angle 0 that is half a pixel along every odd dimension, and
\* warpAffine (INTER_CUBIC) resamples; only with w and h even is the matrix the
\* identity and the result the input samples.
rotate_bound(gray, angle) ==
  LET a   == angle % 360
      nW  == IF a % 180 = 0 THEN gray.w ELSE gray.h
      nH  == IF a % 180 = 0 THEN gray.h ELSE gray.w
      tx2 == nW - 2 * (gray.w \div 2)    \* twice (nW / 2) - cX
      ty2 == nH - 2 * (gray.h \div 2)    \* twice (nH / 2) - cY
      identity == a = 0 /\ tx2 = 0 /\ ty2 = 0
  IN  [gray EXCEPT !.w = nW, !.h = nH,
                   !.px = IF identity THEN @ ELSE Append(@, Tag("warpAffine", a, 0))]

\* deskew_using_hough: env.hough is what HoughLinesP and the median give
deskew_using_hough(gray, e) ==
  IF ~e.hough.found
    THEN Returned(gray)
    ELSE Returned(rotate_bound(gray, e.hough.angle))

\* get_osd_info: (rotate_value, confidence), or (None, None) when
\* image_to_osd or the parse raised; evaluate_candidate reads only the first
get_osd_info(e, angle) ==
  IF e.osd[angle].ok THEN e.osd[angle].rotate ELSE NoAngle

\* get_ocr_text_score: the count of alphanumeric characters; image_to_string
\* is called without a try, so its error is the caller's
get_ocr_text_score(e, angle) == e.text[angle]

\* penalty = 50 * abs(osd_rotate)
PenaltyUnweighted(osd_rotate) == Abs(osd_rotate)
Penalty(osd_rotate) == PenaltyWeight * Abs(osd_rotate)

\* one call of pytesseract on an image
Query(oracle, img) == [oracle |-> oracle, img |-> img]

\* evaluate_candidate(gray, candidate_angle); log is the pytesseract calls it
\* made, in order
evaluate_candidate(gray, candidate_angle, e) ==
  LET candidate_image == rotate_bound(gray, -candidate_angle)
      osd        == get_osd_info(e, candidate_angle)
      osd_rotate == IF osd = NoAngle THEN OsdSentinel ELSE osd
      ocr        == get_ocr_text_score(e, candidate_angle)
      penalty    == Penalty(osd_rotate)
  IN  [ok |-> ocr.ok, score |-> ocr.n - penalty,
       img |-> candidate_image, osd_rotate |-> osd_rotate,
       log |-> <<Query("image_to_osd", candidate_image),
                 Query("image_to_string", candidate_image)>>]

\* correct_orientation: if score > best_score, where best_score starts at
\* -inf (b.angle = NoAngle stands for it: both are assigned together)
ScoreBeatsGE(score, b) == b.angle = NoAngle \/ score >= b.score
ScoreBeats(score, b) == b.angle = NoAngle \/ score > b.score

\* the for loop of correct_orientation from candidate k on; st holds
\* best_score, best_angle and best_image, and the pytesseract calls so far
RECURSIVE OrientLoop(_, _, _, _)
OrientLoop(gray, e, k, st) ==
  IF k > Len(candidates) THEN st
  ELSE LET angle == candidates[k]
           c == evaluate_candidate(gray, angle, e)
       IN  IF ~c.ok THEN [st EXCEPT !.ok = FALSE, !.log = @ \o c.log]
           ELSE IF ScoreBeats(c.score, st.best)
             THEN OrientLoop(gray, e, k + 1,
                    [st EXCEPT !.best = [angle |-> angle, score |-> c.score],
                               !.img = c.img, !.log = @ \o c.log])
             ELSE OrientLoop(gray, e, k + 1, [st EXCEPT !.log = @ \o c.log])

\* best_score = -inf, best_image = gray, best_angle = None, then the loop
correct_orientation_from_second(gray, e) ==
  OrientLoop(gray, e, 2, [ok |-> TRUE, best |-> NoBest, img |-> gray, log |-> <<>>])
correct_orientation(gray, e) ==
  OrientLoop(gray, e, 1, [ok |-> TRUE, best |-> NoBest, img |-> gray, log |-> <<>>])

\* the rows image_to_data answers for this image: none; the page row alone
\* (conf -1, empty text); a word whose confidence is exactly the cutoff; a
\* word with an unparsable confidence; a confident word made of blanks; one
\* or two confident words inside the image
Row(conf_ok, conf, blank, x, y, w, h) ==
  [conf_ok |-> conf_ok, conf |-> conf, blank |-> blank,
   left |-> x, top |-> y, width |-> w, height |-> h]

PageRow(gray) == Row(TRUE, -1, TRUE, 0, 0, gray.w, gray.h)
WordRow(gray, conf_ok, conf, blank) ==
  Row(conf_ok, conf, blank, gray.w \div 4, gray.h \div 4,
      Max2(gray.w \div 2, 1), Max2(gray.h \div 2, 1))
CornerRow(gray) ==
  Row(TRUE, 96, FALSE, 0, 0, Max2(gray.w \div 8, 1), Max2(gray.h \div 8, 1))

image_to_data(gray, e) ==
  CASE e.data = "none"    -> <<>>
    [] e.data = "page"    -> <<PageRow(gray)>>
    [] e.data = "cutoff"  -> <<PageRow(gray), WordRow(gray, TRUE, MinConf, FALSE)>>
    [] e.data = "badconf" -> <<PageRow(gray), WordRow(gray, FALSE, 96, FALSE)>>
    [] e.data = "blank"   -> <<PageRow(gray), WordRow(gray, TRUE, 96, TRUE)>>
    [] e.data = "word"    -> <<PageRow(gray), WordRow(gray, TRUE, 96, FALSE)>>
    [] e.data = "words"   -> <<PageRow(gray), WordRow(gray, TRUE, 61, FALSE), CornerRow(gray)>>
    [] e.data = "rows"    -> e.rows
    [] OTHER              -> <<>>

\* try: conf = float(data['conf'][i]) except: conf = 0
ParsedConf(row) == IF row.conf_ok THEN row.conf ELSE 0

\* if conf > min_conf and data['text'][i].strip()
KeepsGE(row, min_conf) == ParsedConf(row) >= min_conf /\ ~row.blank
KeepsBlank(row, min_conf) == ParsedConf(row) > min_conf
Keeps(row, min_conf) == ParsedConf(row) > min_conf /\ ~row.blank

\* boxes.append((x, y, x + w, y + h))
BoxOf(row) == <<row.left, row.top, row.left + row.width, row.top + row.height>>

RECURSIVE Boxes(_, _)
Boxes(rows, min_conf) ==
  IF rows = <<>> THEN <<>>
  ELSE IF Keeps(Head(rows), min_conf)
    THEN <<BoxOf(Head(rows))>> \o Boxes(Tail(rows), min_conf)
    ELSE Boxes(Tail(rows), min_conf)

\* the rectangle crop_to_text crops to
CropRectUnclamped(boxes, gray, margin) ==
  [x_min |-> Max2(SeqMin([k \in 1..Len(boxes) |-> boxes[k][1]]) - margin, 0),
   y_min |-> Max2(SeqMin([k \in 1..Len(boxes) |-> boxes[k][2]]) - margin, 0),
   x_max |-> SeqMax([k \in 1..Len(boxes) |-> boxes[k][3]]) + margin,
   y_max |-> SeqMax([k \in 1..Len(boxes) |-> boxes[k][4]]) + margin]
CropRect(boxes, gray, margin) ==
  [x_min |-> Max2(SeqMin([k \in 1..Len(boxes) |-> boxes[k][1]]) - margin, 0),
   y_min |-> Max2(SeqMin([k \in 1..Len(boxes) |-> boxes[k][2]]) - margin, 0),
   x_max |-> Min2(SeqMax([k \in 1..Len(boxes) |-> boxes[k][3]]) + margin, gray.w),
   y_max |-> Min2(SeqMax([k \in 1..Len(boxes) |-> boxes[k][4]]) + margin, gray.h)]

\* the length of the Python slice [lo:hi] of n elements, lo >= 0
SliceLen(lo, hi, n) ==
  LET stop  == IF hi < 0 THEN Max2(hi + n, 0) ELSE Min2(hi, n)
      start == Min2(lo, n)
  IN  Max2(stop - start, 0)

\* gray[y_min:y_max, x_min:x_max]
Slice(gray, r) ==
  LET nw == SliceLen(r.x_min, r.x_max, gray.w)
      nh == SliceLen(r.y_min, r.y_max, gray.h)
  IN  [gray EXCEPT !.w = nw, !.h = nh,
                   !.px = IF nw = gray.w /\ nh = gray.h THEN @
                          ELSE Append(@, Tag("slice", r.x_min, r.y_min))]

\* crop_to_text(gray, min_conf, margin); image_to_data is called without a try
crop_to_text(gray, e, min_conf, margin) ==
  IF e.data = "raise" THEN Raised
  ELSE LET boxes == Boxes(image_to_data(gray, e), min_conf)
       IN  IF boxes # <<>>
             THEN Returned(Slice(gray, CropRect(boxes, gray, margin)))
             ELSE Returned(gray)

\* what a call of crop_to_text leaves in crop: its arguments, whether boxes
\* was non-empty, and x_min, y_min, x_max, y_max if it was
NoRect == [x_min |-> 0, y_min |-> 0, x_max |-> 0, y_max |-> 0]
CropArgs(min_conf, margin) ==
  [min_conf |-> min_conf, margin |-> margin, cropped |-> FALSE, rect |-> NoRect]
CropOf(gray, e, min_conf, margin) ==
  LET boxes == Boxes(image_to_data(gray, e), min_conf)
  IN  IF e.data # "raise" /\ boxes # <<>>
        THEN [min_conf |-> min_conf, margin |-> margin, cropped |-> TRUE,
              rect |-> CropRect(boxes, gray, margin)]
        ELSE CropArgs(min_conf, margin)

----------------------------------------------------------------------------
(* The format conversions *)

\* an array with no sample in it, or None
IsEmpty(img) == img.dtype = "none" \/ img.w = 0 \/ img.h = 0

\* a conversion that lets None and empty arrays through
correct_format_for_preprocessing_unchecked(img) ==
  IF ~IsEmpty(img) /\ img.ch \notin {3, 4}
    THEN Raised
    ELSE Returned([img EXCEPT !.ch = 1, !.px = Append(@, Tag("cvtColor", 0, 0))])

\* correct_format_for_preprocessing: cv2.cvtColor(image, cv2.COLOR_BGR2GRAY)
\* raises on None, on an empty array and on anything but 3 or 4 channels
correct_format_for_preprocessing(img) ==
  IF IsEmpty(img) \/ img.ch \notin {3, 4}
    THEN Raised
    ELSE Returned([img EXCEPT !.ch = 1, !.px = Append(@, Tag("cvtColor", 0, 0))])

\* int(h * (target_width / float(w))): the quotient cut to an integer.  In
\* floating point the product can fall just below a quotient that is exact
\* (49 * (800 / 1225.0) is cut to 31, not 32); on no size of this model does it.
ScaledHeight(h, w, tw) == (h * tw) \div w

\* resize_normalize(gray, target_width): cv2.resize to (target_width,
\* int(h * ratio)) raises when that size is empty; then astype("float32") / 255.0
resize_normalize(gray, tw) ==
  IF gray.w = 0 THEN Raised
  ELSE LET nh == ScaledHeight(gray.h, gray.w, tw)
       IN  IF tw <= 0 \/ nh <= 0 THEN Raised
           ELSE Returned([gray EXCEPT
                  !.w = tw, !.h = nh, !.dtype = "float32", !.norm = @ + 1,
                  !.px = IF tw = gray.w /\ nh = gray.h THEN @
                         ELSE Append(@, Tag("resize", tw, nh))])

\* the width correct_format_for_ocr resizes to: resize_normalize(image), with
\* no target_width argument, whatever the pipeline was given
OcrWidth(tw) == DefaultTargetWidth

\* correct_format_for_ocr(image), called from a pipeline given target_width tw
correct_format_for_ocr(img, tw) ==
  LET r == resize_normalize(img, OcrWidth(tw))
  IN  IF ~r.ok THEN Raised
      ELSE IF r.img.dtype \in {"float32", "float64"}
        THEN Returned([r.img EXCEPT !.dtype = "uint8", !.norm = @ - 1,
                                    !.px = Append(@, Tag("astype_uint8", 0, 0))])
        ELSE r

----------------------------------------------------------------------------
(* preprocess_image_custom *)

\* step_functions.get(step): the function's name, "" for None
step_functions_swapped(step) ==
  CASE step = "contrast"         -> "enhance_contrast"
    [] step = "denoise"          -> "denoise_image"
    [] step = "edge_enhancement" -> "edge_enhancement"
    [] step = "sharpen"          -> "threshold_image"
    [] step = "threshold"        -> "sharpen_image"
    [] step = "deskew"           -> "deskew_using_hough"
    [] step = "orientation"      -> "correct_orientation"
    [] step = "crop"             -> "crop_to_text"
    [] OTHER                     -> ""
step_functions(step) ==
  CASE step = "contrast"         -> "enhance_contrast"
    [] step = "denoise"          -> "denoise_image"
    [] step = "edge_enhancement" -> "edge_enhancement"
    [] step = "sharpen"          -> "sharpen_image"
    [] step = "threshold"        -> "threshold_image"
    [] step = "deskew"           -> "deskew_using_hough"
    [] step = "orientation"      -> "correct_orientation"
    [] step = "crop"             -> "crop_to_text"
    [] OTHER                     -> ""

\* func(image)
Call(func, img, e) ==
  CASE func = "enhance_contrast"    -> enhance_contrast(img)
    [] func = "denoise_image"       -> denoise_image(img)
    [] func = "edge_enhancement"    -> edge_enhancement(img)
    [] func = "sharpen_image"       -> sharpen_image(img)
    [] func = "threshold_image"     -> threshold_image(img)
    [] func = "deskew_using_hough"  -> deskew_using_hough(img, e)
    [] func = "correct_orientation" ->
         LET r == correct_orientation(img, e) IN [ok |-> r.ok, img |-> IF r.ok THEN r.img ELSE NoImage]
    [] func = "crop_to_text"        -> crop_to_text(img, e, MinConf, Margin)
    [] OTHER                        -> Raised

\* the pytesseract calls of correct_orientation when func is it
QueriesOf(func, img, e, old) ==
  IF func = "correct_orientation" THEN correct_orientation(img, e).log ELSE old

\* best_angle and best_score when func is correct_orientation and it returns
BestOf(func, img, e, old) ==
  IF func = "correct_orientation" /\ correct_orientation(img, e).ok
    THEN correct_orientation(img, e).best
    ELSE old

\* image = correct_format_for_preprocessing(image)
Entry ==
  /\ pc = "start"
  /\ LET r == correct_format_for_preprocessing(input)
     IN  /\ image' = r.img
         /\ pc' = IF r.ok THEN "loop" ELSE "error"
         /\ err' = IF r.ok THEN "" ELSE "correct_format_for_preprocessing"
  /\ i' = 1
  /\ UNCHANGED <<input, steps, target_width, env, prev, applied, best, out, crop,
               queries, flags, flagged, pipeline_steps>>

\* one turn of the for loop with func found: image = func(image)
ApplyStep ==
  /\ pc = "loop"
  /\ i <= Len(steps)
  /\ step_functions(steps[i]) # ""
  /\ LET func == step_functions(steps[i])
         r == Call(func, image, env)
     IN  /\ applied' = Append(applied, func)
         /\ prev' = image
         /\ image' = r.img
         /\ best' = BestOf(func, image, env, best)
         /\ queries' = QueriesOf(func, image, env, queries)
         /\ crop' = IF func = "crop_to_text"
                      THEN CropOf(image, env, MinConf, Margin) ELSE crop
         /\ pc' = IF r.ok THEN "loop" ELSE "error"
         /\ err' = IF r.ok THEN "" ELSE func
         /\ i' = IF r.ok THEN i + 1 ELSE i
  /\ UNCHANGED <<input, steps, target_width, env, out,
               flags, flagged, pipeline_steps>>

\* one turn of the for loop with func None: logger.warning, nothing else
SkipUnknownLosing ==
  /\ pc = "loop"
  /\ i <= Len(steps)
  /\ step_functions(steps[i]) = ""
  /\ i' = Len(steps) + 1
  /\ UNCHANGED <<input, steps, target_width, env, pc, image, prev, applied, best, out, err, crop,
               queries, flags, flagged, pipeline_steps>>
SkipUnknown ==
  /\ pc = "loop"
  /\ i <= Len(steps)
  /\ step_functions(steps[i]) = ""
  /\ i' = i + 1
  /\ UNCHANGED <<input, steps, target_width, env, pc, image, prev, applied, best, out, err, crop,
               queries, flags, flagged, pipeline_steps>>

\* after the loop: image = correct_format_for_ocr(image); return image
Exit ==
  /\ pc = "loop"
  /\ i > Len(steps)
  /\ LET r == correct_format_for_ocr(image, target_width)
     IN  /\ out' = r.img
         /\ pc' = IF r.ok THEN "done" ELSE "error"
         /\ err' = IF r.ok THEN "" ELSE "correct_format_for_ocr"
  /\ UNCHANGED <<input, steps, target_width, env, i, image, prev, applied, best, crop,
               queries, flags, flagged, pipeline_steps>>

Next == Entry \/ ApplyStep \/ SkipUnknown \/ Exit

----------------------------------------------------------------------------
(* preprocess_image *)

\* the if statements of preprocess_image between the two conversions, in
\* their order: the flag apply_<flag> and the function it guards
flag_steps ==
  << [flag |-> "contrast",         func |-> "enhance_contrast"],
     [flag |-> "denoise",          func |-> "denoise_image"],
     [flag |-> "edge_enhancement", func |-> "edge_enhancement"],
     [flag |-> "sharpen",          func |-> "sharpen_image"],
     [flag |-> "threshold",        func |-> "threshold_image"],
     [flag |-> "deskew",           func |-> "deskew_using_hough"],
     [flag |-> "orientation",      func |-> "correct_orientation"],
     [flag |-> "crop",             func |-> "crop_to_text"] >>

\* where preprocess_image is: before if statement k, with the running image img
Flagged(ok, k, img) == [state |-> IF ok THEN "run" ELSE "error", k |-> k, img |-> img]

\* preprocess_image is called with the arguments in flags, on the image,
\* target width and oracle answers of the finished preprocess_image_custom
\* call: image = correct_format_for_preprocessing(image)
FlagEntry ==
  /\ pc \in {"done", "error"}
  /\ flagged.state = "none"
  /\ LET r == correct_format_for_preprocessing(input)
     IN  flagged' = Flagged(r.ok, 1, r.img)
  /\ UNCHANGED <<input, steps, target_width, env, pc, i, image, prev, applied, best,
                 out, err, crop, queries, flags, pipeline_steps>>

\* if apply_x: image = x(image)
FlagStep ==
  /\ flagged.state = "run"
  /\ flagged.k <= Len(flag_steps)
  /\ LET st == flag_steps[flagged.k]
         r == IF flags.apply[st.flag] THEN Call(st.func, flagged.img, env)
                                      ELSE Returned(flagged.img)
     IN  flagged' = Flagged(r.ok, flagged.k + 1, r.img)
  /\ UNCHANGED <<input, steps, target_width, env, pc, i, image, prev, applied, best,
                 out, err, crop, queries, flags, pipeline_steps>>

\* if apply_resize: image = resize_normalize(image, target_width=target_width)
FlagResize ==
  /\ flagged.state = "run"
  /\ flagged.k = Len(flag_steps) + 1
  /\ LET r == IF flags.apply_resize THEN resize_normalize(flagged.img, target_width)
                                    ELSE Returned(flagged.img)
     IN  flagged' = Flagged(r.ok, flagged.k + 1, r.img)
  /\ UNCHANGED <<input, steps, target_width, env, pc, i, image, prev, applied, best,
                 out, err, crop, queries, flags, pipeline_steps>>

\* return correct_format_for_ocr(image)
FlagExit ==
  /\ flagged.state = "run"
  /\ flagged.k = Len(flag_steps) + 2
  /\ LET r == correct_format_for_ocr(flagged.img, target_width)
     IN  flagged' = [state |-> IF r.ok THEN "done" ELSE "error", k |-> flagged.k, img |-> r.img]
  /\ UNCHANGED <<input, steps, target_width, env, pc, i, image, prev, applied, best,
                 out, err, crop, queries, flags, pipeline_steps>>

----------------------------------------------------------------------------
(* The inputs of a run *)

CandSet == Range(candidates)
StepIds == Range(AVAILABLE_STEPS) \cup {"rotate"}    \* "rotate" is no step

RECURSIVE SeqsUpTo(_, _)
SeqsUpTo(S, n) ==
  IF n = 0 THEN {<<>>}
  ELSE SeqsUpTo(S, n - 1) \cup
       {Append(s, x) : s \in {t \in SeqsUpTo(S, n - 1) : Len(t) = n - 1}, x \in S}

StepLists == SeqsUpTo(StepIds, MaxSteps)

Array(w, h, ch) == [w |-> w, h |-> h, ch |-> ch, dtype |-> "uint8", norm |-> 0, px |-> <<>>]

\* colour images as cv2.imdecode(..., IMREAD_COLOR) gives them: an even-sized
\* page, an odd-sized page, and very wide, short strips
ColourInputs ==
  {Array(1000, 1400, 3), Array(1001, 1401, 3)} \cup
  {Array(2000, h, 3) : h \in 1..MaxShortHeight}

\* a single-channel array, arrays with a zero dimension, None
OtherInputs ==
  {Array(1000, 1400, 1), Array(0, 0, 3), Array(0, 1400, 3), Array(1000, 0, 3), NoImage}

TargetWidths == {DefaultTargetWidth, DefaultTargetWidth \div 2}

Osd(rotate) == [ok |-> TRUE, rotate |-> rotate]
OsdFailed == [ok |-> FALSE, rotate |-> 0]
Text(n) == [ok |-> TRUE, n |-> n]
TextFailed == [ok |-> FALSE, n |-> 0]
NoLines == [found |-> FALSE, angle |-> 0]
Lines(angle) == [found |-> TRUE, angle |-> angle]

\* the alphanumeric count that pays for a residual of 90 degrees
EdgeCount == PenaltyWeight * 90

Env(osd, text, data, hough) ==
  [osd |-> osd, text |-> text, data |-> data, hough |-> hough, rows |-> <<>>]

\* the environments of the pipeline runs: an upright page with one word; OSD
\* failing throughout with more text read at 90 degrees; image_to_string
\* failing at 180 degrees; image_to_data failing; and rows that the filter of
\* crop_to_text drops
UprightOsd == [a \in CandSet |-> Osd(a)]
FailingOsd == [a \in CandSet |-> OsdFailed]
EvenText == [a \in CandSet |-> Text(0)]
SidewaysText == [a \in CandSet |-> IF a = 90 THEN Text(EdgeCount) ELSE Text(0)]
BrokenText == [a \in CandSet |-> IF a = 180 THEN TextFailed ELSE Text(0)]

PipelineEnvs ==
  { Env(UprightOsd, EvenText, "word", NoLines),
    Env(FailingOsd, SidewaysText, "words", Lines(0)),
    Env(UprightOsd, BrokenText, "none", Lines(90)),
    Env(FailingOsd, EvenText, "raise", NoLines),
    Env(UprightOsd, EvenText, "cutoff", NoLines),
    Env(UprightOsd, SidewaysText, "badconf", Lines(-90)),
    Env(FailingOsd, EvenText, "blank", NoLines),
    Env(UprightOsd, EvenText, "page", NoLines) }

Init ==
  /\ input \in ColourInputs \cup OtherInputs
  /\ steps \in StepLists
  /\ target_width \in TargetWidths
  /\ env \in PipelineEnvs
  /\ pc = "start"
  /\ i = 0
  /\ image = NoImage
  /\ prev = NoImage
  /\ applied = <<>>
  /\ best = NoBest
  /\ out = NoImage
  /\ err = ""
  /\ crop = CropArgs(MinConf, Margin)
  /\ queries = <<>>
  /\ flags = NoFlags
  /\ flagged = NotFlagged
  /\ pipeline_steps = <<>>

Spec == Init /\ [][Next]_vars

\* correct_orientation alone, as the only step of a pipeline that has just
\* converted its input, for every answer of OSD and of image_to_string
OsdAnswers == {OsdFailed} \cup {Osd(r) : r \in CandSet}
TextAnswers == {TextFailed, Text(0), Text(EdgeCount), Text(EdgeCount + Excess)}

InitOrient ==
  /\ input \in {Array(1000, 1400, 3), Array(1001, 1401, 3)}
  /\ steps = <<"orientation">>
  /\ target_width = DefaultTargetWidth
  /\ env \in {Env(o, t, "none", NoLines) : o \in [CandSet -> OsdAnswers], t \in [CandSet -> TextAnswers]}
  /\ pc = "loop"
  /\ i = 1
  /\ image = correct_format_for_preprocessing(input).img
  /\ prev = NoImage
  /\ applied = <<>>
  /\ best = NoBest
  /\ out = NoImage
  /\ err = ""
  /\ crop = CropArgs(MinConf, Margin)
  /\ queries = <<>>
  /\ flags = NoFlags
  /\ flagged = NotFlagged
  /\ pipeline_steps = <<>>

NextOrient == ApplyStep

SpecOrient == InitOrient /\ [][NextOrient]_vars

----------------------------------------------------------------------------
(* crop_to_text called directly *)

\* gray = crop_to_text(gray, min_conf, margin)
CropCall ==
  /\ pc = "crop"
  /\ LET r == crop_to_text(image, env, crop.min_conf, crop.margin)
     IN  /\ applied' = Append(applied, "crop_to_text")
         /\ prev' = image
         /\ image' = r.img
         /\ crop' = CropOf(image, env, crop.min_conf, crop.margin)
         /\ pc' = IF r.ok THEN "returned" ELSE "error"
         /\ err' = IF r.ok THEN "" ELSE "crop_to_text"
  /\ UNCHANGED <<input, steps, target_width, env, i, best, out,
               queries, flags, flagged, pipeline_steps>>

\* the rows image_to_data can answer for a w x h image: boxes inside the
\* image; a confidence that does not parse, or 60, or 61; a word, or blanks
\* with a high confidence
Extents(n) == {<<lo, len>> \in (0..n) \X (1..n) : lo + len <= n}
Confidences == {<<FALSE, 96, FALSE>>, <<TRUE, MinConf, FALSE>>,
                <<TRUE, MinConf + 1, FALSE>>, <<TRUE, 96, TRUE>>}
RowsFor(w, h) ==
  {Row(c[1], c[2], c[3], x[1], y[1], x[2], y[2]) :
     c \in Confidences, x \in Extents(w), y \in Extents(h)}
\* no row, one row or two rows
RowLists(w, h) ==
  {<<>>} \cup {<<r>> : r \in RowsFor(w, h)}
         \cup {<<r, q>> : r \in RowsFor(w, h), q \in RowsFor(w, h)}

GrayArray(w, h) == [Array(w, h, 1) EXCEPT !.px = <<Tag("cvtColor", 0, 0)>>]

InitCrop ==
  /\ \E w \in 1..MaxSide, h \in 1..MaxSide :
       /\ image = GrayArray(w, h)
       /\ env \in {[Env(FailingOsd, EvenText, "rows", NoLines) EXCEPT !.rows = r] :
                    r \in RowLists(w, h)}
  /\ crop \in {CropArgs(MinConf, m) : m \in 0..MaxMargin}
  /\ input = NoImage
  /\ steps = <<>>
  /\ target_width = DefaultTargetWidth
  /\ pc = "crop"
  /\ i = 0
  /\ prev = NoImage
  /\ applied = <<>>
  /\ best = NoBest
  /\ out = NoImage
  /\ err = ""
  /\ queries = <<>>
  /\ flags = NoFlags
  /\ flagged = NotFlagged
  /\ pipeline_steps = <<>>

NextCrop == CropCall

SpecCrop == InitCrop /\ [][NextCrop]_vars

----------------------------------------------------------------------------
(* preprocess_image beside preprocess_image_custom *)

\* the apply_* arguments: one flag for each step, and apply_resize
FlagSets ==
  {[apply |-> a, apply_resize |-> r] : a \in [Range(AVAILABLE_STEPS) -> BOOLEAN], r \in BOOLEAN}

\* the steps whose flag is set, in the order of AVAILABLE_STEPS
EnabledSteps(f) == SelectSeq(AVAILABLE_STEPS, LAMBDA s : f.apply[s])

\* both functions are called on the same image with the same target_width,
\* preprocess_image_custom with the steps the flags enable
InitFlags ==
  /\ input \in {Array(1000, 1400, 3), Array(1001, 1401, 3)}
  /\ flags \in FlagSets
  /\ steps = EnabledSteps(flags)
  /\ target_width \in TargetWidths
  /\ env \in PipelineEnvs
  /\ pc = "start"
  /\ i = 0
  /\ image = NoImage
  /\ prev = NoImage
  /\ applied = <<>>
  /\ best = NoBest
  /\ out = NoImage
  /\ err = ""
  /\ crop = CropArgs(MinConf, Margin)
  /\ queries = <<>>
  /\ flagged = NotFlagged
  /\ pipeline_steps = <<>>

NextFlags == Entry \/ ApplyStep \/ Exit \/ FlagEntry \/ FlagStep \/ FlagResize \/ FlagExit

SpecFlags == InitFlags /\ [][NextFlags]_vars

----------------------------------------------------------------------------
(* pipeline_ordering_ui: the buttons of the app *)

DEFAULT_PIPELINE == <<"contrast", "deskew", "orientation", "crop">>

\* what a click in the app leaves alone
callVars == <<input, steps, target_width, env, pc, i, image, prev, applied, best,
              out, err, crop, queries, flags, flagged>>

\* s[a], s[b] = s[b], s[a]
Swap(s, a, b) == [s EXCEPT ![a] = s[b], ![b] = s[a]]

\* list.remove(x): the list without the first entry equal to x
RECURSIVE ListRemove(_, _)
ListRemove(s, x) ==
  IF s = <<>> THEN <<>>
  ELSE IF Head(s) = x THEN Tail(s)
  ELSE <<Head(s)>> \o ListRemove(Tail(s), x)

\* "Reset to Default"
Reset ==
  /\ pc = "ui"
  /\ pipeline_steps' = DEFAULT_PIPELINE
  /\ UNCHANGED callVars

\* the button of an available step: append it if it is not selected yet
Add(step) ==
  /\ pc = "ui"
  /\ pipeline_steps' = IF step \notin Range(pipeline_steps)
                         THEN Append(pipeline_steps, step)
                         ELSE pipeline_steps
  /\ UNCHANGED callVars

\* the list after the up button of entry k (the code's i is k - 1): if i > 0,
\* swap with the entry before; without the test the swap would be with index
\* -1, the last entry
MovedUpUnguarded(s, k) == IF k > 1 THEN Swap(s, k, k - 1) ELSE Swap(s, k, Len(s))
MovedUp(s, k) == IF k > 1 THEN Swap(s, k, k - 1) ELSE s

\* the list after the down button of entry k: if i < len - 1, swap with the
\* entry after
MovedDown(s, k) == IF k < Len(s) THEN Swap(s, k, k + 1) ELSE s

\* the list after the delete button of entry k: pipeline_steps.remove(step)
Removed(s, k) == ListRemove(s, s[k])

MoveUp(k) ==
  /\ pc = "ui"
  /\ k \in 1..Len(pipeline_steps)
  /\ pipeline_steps' = MovedUp(pipeline_steps, k)
  /\ UNCHANGED callVars

MoveDown(k) ==
  /\ pc = "ui"
  /\ k \in 1..Len(pipeline_steps)
  /\ pipeline_steps' = MovedDown(pipeline_steps, k)
  /\ UNCHANGED callVars

Remove(k) ==
  /\ pc = "ui"
  /\ k \in 1..Len(pipeline_steps)
  /\ pipeline_steps' = Removed(pipeline_steps, k)
  /\ UNCHANGED callVars

\* the app starts with the default pipeline; no image has been processed
InitUI ==
  /\ pipeline_steps = DEFAULT_PIPELINE
  /\ pc = "ui"
  /\ input = NoImage
  /\ steps = <<>>
  /\ target_width = DefaultTargetWidth
  /\ env = Env(FailingOsd, EvenText, "none", NoLines)
  /\ i = 0
  /\ image = NoImage
  /\ prev = NoImage
  /\ applied = <<>>
  /\ best = NoBest
  /\ out = NoImage
  /\ err = ""
  /\ crop = CropArgs(MinConf, Margin)
  /\ queries = <<>>
  /\ flags = NoFlags
  /\ flagged = NotFlagged

NextUI ==
  \/ Reset
  \/ \E step \in Range(AVAILABLE_STEPS) : Add(step)
  \/ \E k \in 1..Len(AVAILABLE_STEPS) : MoveUp(k)
  \/ \E k \in 1..Len(AVAILABLE_STEPS) : MoveDown(k)
  \/ \E k \in 1..Len(AVAILABLE_STEPS) : Remove(k)

SpecUI == InitUI /\ [][NextUI]_vars

----------------------------------------------------------------------------
(* What the claims speak of *)

IsKnown(step) == step \in Range(AVAILABLE_STEPS)
KnownOnly(s) == SelectSeq(s, IsKnown)
Last(s) == s[Len(s)]

\* the transform each identifier names (docstring of preprocess_image_custom)
NamedTransform ==
  [contrast |-> "enhance_contrast", denoise |-> "denoise_image",
   edge_enhancement |-> "edge_enhancement", sharpen |-> "sharpen_image",
   threshold |-> "threshold_image", deskew |-> "deskew_using_hough",
   orientation |-> "correct_orientation", crop |-> "crop_to_text"]

TransformsOf(s) == [k \in 1..Len(KnownOnly(s)) |-> NamedTransform[KnownOnly(s)[k]]]

\* the last step applied was func, and it returned
JustReturned(func) ==
  /\ applied # <<>>
  /\ Last(applied) = func
  /\ ~(pc = "error" /\ err = func)

\* C1: the transforms applied to the running image are those the step list
\* names, unknown identifiers left out, in the list's order and once per
\* occurrence: while the loop runs they are those of the steps passed so far,
\* and when the pipeline returns they are those of the whole list.
C1_AppliedInOrder ==
  /\ pc = "loop" => applied = TransformsOf(SubSeq(steps, 1, i - 1))
  /\ pc = "done" => applied = TransformsOf(steps)
  /\ pc = "error" /\ err # "correct_format_for_preprocessing" /\ err # "correct_format_for_ocr"
       => applied = TransformsOf(SubSeq(steps, 1, i))

\* a returned pipeline that applied the same known step twice
C1_Witness ==
  /\ pc = "done"
  /\ Len(steps) = 2
  /\ steps[1] = steps[2]
  /\ applied = <<"sharpen_image", "sharpen_image">>

\* C2: the returned image is exactly as wide as the target_width passed.
C2_WidthIsTarget == pc = "done" => out.w = target_width

\* the pipeline of the known steps alone: each named transform in turn, then
\* the exit conversion
RECURSIVE RunKnown(_, _, _)
RunKnown(r, s, e) ==
  IF s = <<>> \/ ~r.ok THEN r
  ELSE RunKnown(Call(NamedTransform[Head(s)], r.img, e), Tail(s), e)

PipelineOf(img, s, e, tw) ==
  LET r == RunKnown(correct_format_for_preprocessing(img), s, e)
  IN  IF r.ok THEN correct_format_for_ocr(r.img, tw) ELSE Raised

\* C3: a step list with unknown identifiers gives what the same list without
\* them gives: the running image after each turn of the loop, the returned
\* image, and whether the call raises.
C3_UnknownSkipped ==
  /\ pc = "loop" =>
       image = RunKnown(correct_format_for_preprocessing(input),
                        KnownOnly(SubSeq(steps, 1, i - 1)), env).img
  /\ pc = "done" =>
       /\ PipelineOf(input, KnownOnly(steps), env, target_width).ok
       /\ out = PipelineOf(input, KnownOnly(steps), env, target_width).img
  /\ pc = "error" => ~PipelineOf(input, KnownOnly(steps), env, target_width).ok

\* a returned pipeline whose first identifier is unknown and whose second
\* step was applied
C3_Witness ==
  /\ pc = "done"
  /\ Len(steps) = 2
  /\ ~IsKnown(steps[1])
  /\ applied = <<"threshold_image">>
  /\ out.px # PipelineOf(input, <<>>, env, target_width).img.px

\* the combined score of a candidate as the specification states it
Residual(a) == IF env.osd[a].ok THEN env.osd[a].rotate ELSE 360
CombinedScore(a) == env.text[a].n - 50 * Abs(Residual(a))

\* the first candidate, in the order 0, 90, 180, 270, to attain the maximum of f
FirstMax(f) ==
  CHOOSE a \in CandSet :
    /\ \A b \in CandSet : f[b] <= f[a]
    /\ \A b \in CandSet : b < a => f[b] < f[a]

\* C4: correct_orientation returns the candidate that is the first to attain
\* the maximum combined score.
C4_FirstMaximum ==
  JustReturned("correct_orientation") =>
    /\ best.angle = FirstMax([a \in CandSet |-> CombinedScore(a)])
    /\ best.score = CombinedScore(best.angle)
    /\ image = rotate_bound(prev, -best.angle)

\* 90 and 270 degrees tie for the maximum, and 90 is returned
C4_Witness ==
  /\ JustReturned("correct_orientation")
  /\ best.angle = 90
  /\ CombinedScore(90) = CombinedScore(270)
  /\ CombinedScore(0) < CombinedScore(90)
  /\ image.w = prev.h

AllOsdFailed == \A a \in CandSet : ~env.osd[a].ok

\* C5 as stated: if OSD fails for all four candidates, the 0 degree candidate
\* is selected whatever the alphanumeric counts.
C5_ZeroByDefault ==
  JustReturned("correct_orientation") /\ AllOsdFailed => best.angle = 0

\* C5 amended: if OSD fails for all four candidates, the first candidate to
\* attain the maximum alphanumeric count is selected; 0 degrees exactly when
\* no other candidate has a greater count.
C5_MostTextWins ==
  JustReturned("correct_orientation") /\ AllOsdFailed =>
    /\ best.angle = FirstMax([a \in CandSet |-> env.text[a].n])
    /\ best.angle = 0 <=> \A a \in CandSet : env.text[a].n <= env.text[0].n

\* OSD failed throughout and the 180 degree candidate, with the most text, won
C5_Witness ==
  /\ JustReturned("correct_orientation")
  /\ AllOsdFailed
  /\ env.text[180].n > env.text[0].n
  /\ best.angle = 180

AllScoresEqual == \A a, b \in CandSet : CombinedScore(a) = CombinedScore(b)

\* C6: when the four combined scores are equal, the 0 degree candidate is
\* returned, an image with the dimensions and the samples of the input.
C6_TieReturnsInput ==
  JustReturned("correct_orientation") /\ AllScoresEqual =>
    /\ best.angle = 0
    /\ image = prev

\* OSD reports no residual for 0 degrees and 90, 180 or 270 for the others
UprightOnlyAtZero ==
  /\ env.osd[0] = Osd(0)
  /\ \A a \in CandSet \ {0} : env.osd[a].ok /\ env.osd[a].rotate \in {90, 180, 270}

\* C7 as stated: then 0 degrees is selected for every combination of counts.
C7_UprightAlwaysWins ==
  JustReturned("correct_orientation") /\ UprightOnlyAtZero => best.angle = 0

\* C7 amended: then 0 degrees is selected exactly when no other candidate's
\* count exceeds the count of the 0 degree candidate by more than 50 times
\* the residual reported for it.
C7_UprightWinsUnlessOutread ==
  JustReturned("correct_orientation") /\ UprightOnlyAtZero =>
    (best.angle = 0 <=>
       \A a \in CandSet \ {0} : env.text[a].n - 50 * env.osd[a].rotate <= env.text[0].n)

\* 0 degrees wins although another candidate reads just as much as its
\* penalty allows
C7_Witness ==
  /\ JustReturned("correct_orientation")
  /\ UprightOnlyAtZero
  /\ env.text[0].n = 0
  /\ env.text[90].n = 50 * 90
  /\ env.osd[90].rotate = 90
  /\ best.angle = 0

\* the nearest integer to a / b (b > 0)
RoundDiv(a, b) == (2 * a + b) \div (2 * b)

\* the exit conversion has run on the running image
ExitRan == pc = "done" \/ (pc = "error" /\ err = "correct_format_for_ocr")

\* C8: the exit conversion returns an image of height round(h * 800 / w), at
\* least 1, for the w x h image it is given (800 is the width the code passes
\* to resize_normalize there).
C8_RoundedHeight ==
  ExitRan =>
    /\ pc = "done"
    /\ out.h = Max2(RoundDiv(image.h * DefaultTargetWidth, image.w), 1)

\* C9: an error raised by image_to_data in crop_to_text or by image_to_string
\* in correct_orientation does not leave the step: crop returns its input,
\* orientation one of the four candidates, and the pipeline goes on.
C9_OracleErrorContained ==
  /\ applied # <<>> /\ Last(applied) = "crop_to_text" /\ env.data = "raise"
       => pc # "error" /\ image = prev
  /\ applied # <<>> /\ Last(applied) = "correct_orientation"
       /\ (\E a \in CandSet : ~env.text[a].ok)
       => pc # "error" /\ \E a \in CandSet : image = rotate_bound(prev, -a)

\* no row image_to_data answered passes the filter: a parsed confidence
\* above the cutoff of 60 and a text that is not blank
NoBoxSurvives ==
  /\ env.data # "raise"
  /\ \A k \in 1..Len(image_to_data(prev, env)) :
       LET row == image_to_data(prev, env)[k]
       IN  ~(row.conf_ok /\ row.conf > 60 /\ ~row.blank)

\* C10: when no word box comes back or none survives the filter, crop_to_text
\* returns its input: same dimensions, same samples.
C10_CropNoOp ==
  JustReturned("crop_to_text") /\ NoBoxSurvives => image = prev

\* crop_to_text has returned after a word at exactly the cutoff came back
C10_Witness ==
  /\ JustReturned("crop_to_text")
  /\ env.data = "cutoff"
  /\ NoBoxSurvives
  /\ image = prev
  /\ image.w = 1000

\* the rows of the last crop_to_text call that the claims count as surviving:
\* a confidence that parses and is strictly above the cutoff, a text not blank
CallRows == image_to_data(prev, env)
Survivors ==
  {k \in 1..Len(CallRows) :
     CallRows[k].conf_ok /\ CallRows[k].conf > crop.min_conf /\ ~CallRows[k].blank}
MinOf(S) == CHOOSE x \in S : \A y \in S : x <= y
MaxOf(S) == CHOOSE x \in S : \A y \in S : x >= y

\* C11: the rectangle crop_to_text crops to lies in the image:
\* 0 <= x_min <= x_max <= width and 0 <= y_min <= y_max <= height.
C11_RectInImage ==
  JustReturned("crop_to_text") /\ crop.cropped =>
    /\ 0 <= crop.rect.x_min /\ crop.rect.x_min <= crop.rect.x_max
    /\ crop.rect.x_max <= prev.w
    /\ 0 <= crop.rect.y_min /\ crop.rect.y_min <= crop.rect.y_max
    /\ crop.rect.y_max <= prev.h

\* a crop whose margin reaches past the right and the top edge of the image
\* and stays inside it on the left
C11_Witness ==
  /\ JustReturned("crop_to_text")
  /\ crop.cropped
  /\ crop.margin > 0
  /\ \E k \in Survivors : CallRows[k].left + CallRows[k].width + crop.margin > prev.w
  /\ \E k \in Survivors : CallRows[k].top - crop.margin < 0
  /\ crop.rect.x_min > 0
  /\ crop.rect.x_max = prev.w
  /\ crop.rect.y_min = 0

\* C12: a call of preprocess_image_custom whose input is None or an array with
\* a zero dimension fails in correct_format_for_preprocessing, with the error
\* cv2.cvtColor raises: no step has been called and so no oracle queried, and
\* nothing is returned.
C12_EmptyInputFailsAtEntry ==
  IsEmpty(input) /\ pc # "start" =>
    /\ pc = "error"
    /\ err = "correct_format_for_preprocessing"
    /\ applied = <<>>
    /\ best = NoBest
    /\ ~crop.cropped
    /\ image = NoImage
    /\ out = NoImage

\* None was passed with a step list that names a transform and an oracle that
\* would answer, and the call has failed
C12_Witness ==
  /\ input = NoImage
  /\ pc = "error"
  /\ Len(steps) > 0
  /\ \A k \in 1..Len(steps) : IsKnown(steps[k])
  /\ env.data # "raise"

\* C13: correct_format_for_preprocessing succeeds for every array that has
\* samples, whatever its number of channels: a single-channel array is accepted
\* as a three-channel one is, and the image the steps start from has one
\* channel of 8-bit samples.
C13_AnyLayoutAccepted ==
  ~IsEmpty(input) /\ pc # "start" =>
    /\ err # "correct_format_for_preprocessing"
    /\ (pc = "loop" /\ applied = <<>> => image.ch = 1 /\ image.dtype = "uint8")

\* the pytesseract calls the claim expects of correct_orientation(gray): for
\* 0, 90, 180 and 270 in turn, image_to_osd and then image_to_string on the
\* candidate image
FourAndFour(gray) ==
  [k \in 1..(2 * Len(candidates)) |->
     Query(IF k % 2 = 1 THEN "image_to_osd" ELSE "image_to_string",
           rotate_bound(gray, -candidates[(k + 1) \div 2]))]

\* C14: a call of correct_orientation evaluates the four candidates 0, 90, 180
\* and 270 in that order and never leaves the loop early: it queries OSD and
\* then the full text on each candidate image, four and four queries that
\* alternate, whether or not OSD failed for a candidate.
C14_FourAndFourQueries ==
  applied # <<>> /\ Last(applied) = "correct_orientation" =>
    queries = FourAndFour(prev)

\* the rectangle around the boxes of the rows in S, widened by margin and cut
\* to the image gray
UnionRect(S, margin, gray) ==
  [x_min |-> Max2(MinOf({CallRows[k].left : k \in S}) - margin, 0),
   y_min |-> Max2(MinOf({CallRows[k].top : k \in S}) - margin, 0),
   x_max |-> Min2(MaxOf({CallRows[k].left + CallRows[k].width : k \in S}) + margin, gray.w),
   y_max |-> Min2(MaxOf({CallRows[k].top + CallRows[k].height : k \in S}) + margin, gray.h)]

\* C15: crop_to_text crops exactly when some row has a confidence that parses
\* and is strictly above the cutoff and a text that is not blank; the rectangle
\* is then the bounding rectangle of the boxes of those rows alone, widened by
\* the margin on each side and cut to the image; it contains the part of each
\* of those boxes that lies in the image, and the result is that rectangle of
\* the image.
C15_RectOfSurvivors ==
  JustReturned("crop_to_text") =>
    /\ crop.cropped <=> Survivors # {}
    /\ crop.cropped =>
         /\ crop.rect = UnionRect(Survivors, crop.margin, prev)
         /\ \A k \in Survivors :
              /\ crop.rect.x_min <= Max2(CallRows[k].left, 0)
              /\ crop.rect.y_min <= Max2(CallRows[k].top, 0)
              /\ Min2(CallRows[k].left + CallRows[k].width, prev.w) <= crop.rect.x_max
              /\ Min2(CallRows[k].top + CallRows[k].height, prev.h) <= crop.rect.y_max
         /\ image.w = crop.rect.x_max - crop.rect.x_min
         /\ image.h = crop.rect.y_max - crop.rect.y_min
    /\ ~crop.cropped => image = prev

\* a crop around one word, beside a word at exactly the cutoff and outside
\* the rectangle, which it would have widened
C15_Witness ==
  /\ JustReturned("crop_to_text")
  /\ crop.cropped
  /\ \E k \in 1..Len(CallRows) :
       /\ CallRows[k].conf_ok /\ CallRows[k].conf = crop.min_conf
       /\ ~CallRows[k].blank
       /\ CallRows[k].left < crop.rect.x_min
       /\ CallRows[k].top + CallRows[k].height > crop.rect.y_max

\* C16: whatever the eight apply_* flags and apply_resize, preprocess_image
\* ends as preprocess_image_custom does when called on the same image with the
\* enabled steps in the order contrast, denoise, edge_enhancement, sharpen,
\* threshold, deskew, orientation, crop and the same target width: both raise,
\* or both return the same image, its samples scaled back to 8 bits once.
C16_FlagsEqualCustom ==
  flagged.state \in {"done", "error"} =>
    /\ flagged.state = pc
    /\ pc = "done" => flagged.img = out /\ out.norm = 0

\* the list s without its entry k
Without(s, k) == [j \in 1..(Len(s) - 1) |-> IF j < k THEN s[j] ELSE s[j + 1]]

\* t holds the entries of s, each as often as s does
IsPermutation(s, t) ==
  /\ Len(s) = Len(t)
  /\ \A x \in Range(s) \cup Range(t) :
       Cardinality({j \in 1..Len(s) : s[j] = x}) = Cardinality({j \in 1..Len(t) : t[j] = x})

\* only identifiers of AVAILABLE_STEPS, none of them twice
Selection(s) ==
  /\ Range(s) \subseteq Range(AVAILABLE_STEPS)
  /\ \A j, k \in 1..Len(s) : s[j] = s[k] => j = k

\* what a click on a button of entry k of the list s does to it
ClickOnEntry(s, k) ==
  /\ IsPermutation(s, MovedUp(s, k))
  /\ IsPermutation(s, MovedDown(s, k))
  /\ k = 1 => MovedUp(s, k) = s
  /\ k = Len(s) => MovedDown(s, k) = s
  /\ Removed(s, k) = Without(s, k)

\* C17: from the default pipeline, after any clicks on Reset, on the buttons
\* of the available steps and on the up, down and delete buttons, the selected
\* list holds only identifiers of AVAILABLE_STEPS and none twice; a click on
\* up or down then permutes the list, and leaves it as it is for up on the
\* first and down on the last entry; a click on delete takes out exactly the
\* entry clicked.
C17_SelectionKept ==
  pc = "ui" =>
    /\ Selection(pipeline_steps)
    /\ \A k \in 1..Len(pipeline_steps) : ClickOnEntry(pipeline_steps, k)

\* a selection that took a delete, an add and a move to reach: the default
\* pipeline without contrast and deskew, denoise added and moved to the front
C17_Witness ==
  /\ pc = "ui"
  /\ pipeline_steps = <<"denoise", "orientation", "crop">>

====
